---------------------------- MODULE Spec2Model ----------------------------
(***************************************************************************)
(* Model of deep_motion_planner.py (class DeepMotionPlanner).              *)
(*                                                                         *)
(* Two kinds of execution contexts share the object's fields:              *)
(*   - the processing thread, running processing_data (the control loop),  *)
(*   - the ROS callback threads, running scan_callback, goal_callback,     *)
(*     preempt_callback and the owner's __exit__.                          *)
(* Every access of the loop to a shared field (self._as, self.target_pose, *)
(* self.last_scan, self.interrupt_event) is a step of its own, so that the *)
(* callbacks interleave with the loop as Python threads do.                *)
(*                                                                         *)
(* Units: lengths in 1/100 m, angles in 1/100 rad, time in control periods *)
(* (1/self.freq).                                                          *)
(***************************************************************************)
EXTENDS Integers, Sequences, FiniteSets

(***************************************************************************)
(* Bounds of the model.                                                    *)
(***************************************************************************)
\* number of goals the action server receives
MaxGoals == 2
\* number of loop iterations
MaxTicks == 2
\* the decimated scans have up to n_laser_scans + MaxExcess samples
MaxExcess == 0
\* periods an inference call may take
MaxDelay == 2
\* ROS parameter ~n_laser_scans (line 30; default 540), scaled down
n_laser_scans == 4
\* longest scan handed to the preprocessing on its own
MaxScanLen == 20

(***************************************************************************)
(* Program constants.                                                      *)
(***************************************************************************)
\* ROS parameter ~laser_scan_stride, default value (line 29)
laser_scan_stride == 2
\* check_goal_reached: position_tolerance = 0.1 m (line 143), in 1/100 m
position_tolerance == 10
\* check_goal_reached: orientation_tolerance = 0.1 rad (line 144), in 1/100 rad
orientation_tolerance == 10

\* Python's None and a present value: a sequence of at most one element
None == <<>>
Some(v) == <<v>>
Get(o) == o[1]

(***************************************************************************)
(* Quaternions are <<x, y, z, w>> as in tf.transformations.                *)
(***************************************************************************)
QIdentity == <<0, 0, 0, 1>>
QYaw180 == <<0, 0, 1, 0>>

\* tf.transformations.quaternion_multiply(quaternion1, quaternion0)
quaternion_multiply(q1, q0) ==
    << q1[1]*q0[4] + q1[2]*q0[3] - q1[3]*q0[2] + q1[4]*q0[1],
       (0 - q1[1])*q0[3] + q1[2]*q0[4] + q1[3]*q0[1] + q1[4]*q0[2],
       q1[1]*q0[2] - q1[2]*q0[1] + q1[3]*q0[4] + q1[4]*q0[3],
       (0 - q1[1])*q0[1] - q1[2]*q0[2] - q1[3]*q0[3] + q1[4]*q0[4] >>

\* tf.transformations.quaternion_inverse: the conjugate over the squared norm
\* (the poses of the model are unit quaternions, so the division is exact)
quaternion_inverse(q) ==
    LET nq == q[1]*q[1] + q[2]*q[2] + q[3]*q[3] + q[4]*q[4]
    IN  << (0 - q[1]) \div nq, (0 - q[2]) \div nq, (0 - q[3]) \div nq, q[4] \div nq >>

\* math.atan2 in 1/100 rad, on the axes: the rotation matrices of the model's
\* quaternions (one component 1, the others 0) have no other entries
Atan2(y, x) ==
    CASE y = 0 /\ x > 0 -> 0
      [] y = 0 /\ x < 0 -> 314
      [] y > 0 /\ x = 0 -> 157
      [] y < 0 /\ x = 0 -> 0 - 157

\* tf.transformations.euler_from_quaternion(q)[2]: axes 'sxyz', the angle
\* about z is atan2(M[1,0], M[0,0]) of the rotation matrix of q
euler_yaw(q) ==
    LET nq  == q[1]*q[1] + q[2]*q[2] + q[3]*q[3] + q[4]*q[4]
        M10 == (2 * (q[1]*q[2] + q[3]*q[4])) \div nq
        M00 == 1 - (2 * (q[2]*q[2] + q[3]*q[3])) \div nq
    IN  IF M10 = 0 /\ M00 = 0 THEN 0 ELSE Atan2(M10, M00)

Abs(v) == IF v < 0 THEN 0 - v ELSE v

(***************************************************************************)
(* Inputs of the model.                                                    *)
(***************************************************************************)
GoalState == {"Idle", "Active", "Preempted", "Succeeded"}
GoalIds == 1..MaxGoals

\* poses a goal message may carry (position in the map frame, orientation)
GoalPoses ==
    { [x |-> 5,  y |-> 0 - 5, q |-> QIdentity],
      [x |-> 10, y |-> 0,     q |-> QIdentity] }

\* results of lookupTransform('/map', '/base_link')
RobotPoses ==
    { [x |-> 0, y |-> 0, q |-> QIdentity],
      [x |-> 0, y |-> 0, q |-> QYaw180] }

\* a LaserScan whose ranges are the ramp 1, 2, ..., len
Ramp(len) == [i \in 1..len |-> i]
ScanLens == { laser_scan_stride * (n_laser_scans + d) : d \in (0 - 1)..MaxExcess }
Scans == { Ramp(len) : len \in ScanLens }

\* the inputs of the preprocessing and of compute_relative_target taken on
\* their own: scans of every length, goals and robots off the origin
PureScans == { Ramp(len) : len \in 0..MaxScanLen }
PureGoalPoses ==
    { [x |-> 300, y |-> 400, q |-> QIdentity],
      [x |-> 300, y |-> 400, q |-> QYaw180],
      [x |-> 0 - 100, y |-> 0, q |-> QIdentity] }
PureRobotPoses ==
    { [x |-> 0,   y |-> 0,   q |-> QIdentity],
      [x |-> 100, y |-> 200, q |-> QIdentity],
      [x |-> 100, y |-> 200, q |-> QYaw180] }

\* what tf_wrapper.inference returns: (linear_x, angular_z)
InferenceOutputs == { <<50, 0>> }

(***************************************************************************)
(* State.                                                                  *)
(***************************************************************************)
VARIABLES
    target_pose,      \* self.target_pose: None or the accepted goal message
    last_scan,        \* self.last_scan: None or the ranges of the last scan
    interrupt_event,  \* self.interrupt_event
    as_goal,          \* self._as: id of the current goal (0: none yet)
    as_status,        \* self._as: lifecycle state of every goal
    gpc,              \* goal_callback: "idle", or "accepted" between lines 203 and 204
    goal,             \* goal_callback: the local `goal`
    pc,               \* processing_data: position of the processing thread
    tf_wrapper,       \* the TensorflowWrapper handle: "none", "held", "released"
    next_call,        \* processing_data: next_call
    start,            \* time.time() at line 91
    now,              \* time.time()
    iter,             \* loop iterations begun
    missed,           \* 'Missed control loop frequency' logged in this iteration
    base,             \* compute_relative_target: result of lookupTransform
    diff,             \* compute_relative_target: goal_position_difference
    reads,            \* ids of the goal messages read at lines 175, 176, 182
    target,           \* processing_data: target
    input_data,       \* processing_data: input_data
    cmd,              \* processing_data: (linear_x, angular_z)
    published,        \* /cmd_vel: the commands published in this iteration
    feedback,         \* action feedback: records published in this iteration
    succeeded,        \* set_succeeded calls made for every goal
    after_set         \* iterations begun, commands published and successes
                      \* signalled since interrupt_event.set()

shared == <<target_pose, last_scan, interrupt_event, as_goal, as_status>>
callback == <<gpc, goal>>
timing == <<next_call, start, now, iter, missed>>
locals == <<base, diff, reads, target, input_data, cmd>>
outputs == <<published, feedback, succeeded, after_set>>
vars == <<shared, callback, pc, tf_wrapper, timing, locals, outputs>>

\* self._as.is_active()
is_active == as_goal # 0 /\ as_status[as_goal] = "Active"

Init ==
    /\ target_pose = None
    /\ last_scan = None
    /\ interrupt_event = FALSE
    /\ as_goal = 0
    /\ as_status = [g \in GoalIds |-> "Idle"]
    /\ gpc = "idle"
    /\ goal = None
    /\ pc = "enter"
    /\ tf_wrapper = "none"
    /\ next_call = 0
    /\ start = 0
    /\ now = 0
    /\ iter = 0
    /\ missed = FALSE
    /\ base = None
    /\ diff = None
    /\ reads = None
    /\ target = None
    /\ input_data = None
    /\ cmd = None
    /\ published = <<>>
    /\ feedback = 0
    /\ succeeded = [g \in GoalIds |-> 0]
    /\ after_set = [ticks |-> 0, cmds |-> 0, succs |-> 0]


(***************************************************************************)
(* The callbacks.                                                          *)
(***************************************************************************)
\* scan_callback(data), lines 76-80
scan_callback ==
    /\ \E data \in Scans : last_scan' = Some(data)
    /\ UNCHANGED <<target_pose, interrupt_event, as_goal, as_status>>
    /\ UNCHANGED <<callback, pc, tf_wrapper, timing, locals, outputs>>

\* self._as.accept_new_goal() of actionlib's SimpleActionServer: a goal that
\* is still Active when the next one is accepted is cancelled by the server
\* (set_canceled on an Active goal ends it Preempted), then the goal the
\* server received becomes the current goal and Active.  The server calls
\* preempt_callback before goal_callback when a goal arrives while one is
\* Active, so the goal is as a rule Preempted already (preempt_callback).
accept_new_goal(new) ==
    /\ as_goal' = new
    /\ as_status' = [g \in GoalIds |->
                        IF g = new THEN "Active"
                        ELSE IF as_status[g] = "Active" THEN "Preempted"
                        ELSE as_status[g]]

\* goal_callback, line 203: goal = self._as.accept_new_goal()
goal_callback_accept ==
    /\ gpc = "idle"
    /\ as_goal < MaxGoals
    /\ \E p \in GoalPoses :
          goal' = Some([id |-> as_goal + 1, x |-> p.x, y |-> p.y, q |-> p.q])
    /\ accept_new_goal(as_goal + 1)
    /\ gpc' = "accepted"
    /\ UNCHANGED <<target_pose, last_scan, interrupt_event>>
    /\ UNCHANGED <<pc, tf_wrapper, timing, locals, outputs>>

\* goal_callback, line 204: self.target_pose = goal
goal_callback_store ==
    /\ gpc = "accepted"
    /\ target_pose' = goal
    /\ goal' = None
    /\ gpc' = "idle"
    /\ UNCHANGED <<last_scan, interrupt_event, as_goal, as_status>>
    /\ UNCHANGED <<pc, tf_wrapper, timing, locals, outputs>>

\* self._as.set_preempted(): the current goal becomes Preempted
set_preempted ==
    as_status' = [as_status EXCEPT ![as_goal] = "Preempted"]

\* preempt_callback, lines 206-211: the server calls it on a cancel request
\* for its Active goal
preempt_callback ==
    /\ is_active
    /\ set_preempted
    /\ UNCHANGED <<target_pose, last_scan, interrupt_event, as_goal>>
    /\ UNCHANGED <<callback, pc, tf_wrapper, timing, locals, outputs>>

\* __exit__ that also preempts the goal it finds Active
exit_preempts ==
    /\ ~interrupt_event
    /\ interrupt_event' = TRUE
    /\ as_status' = IF is_active
                    THEN [as_status EXCEPT ![as_goal] = "Preempted"]
                    ELSE as_status
    /\ UNCHANGED <<target_pose, last_scan, as_goal>>
    /\ UNCHANGED <<callback, pc, tf_wrapper, timing, locals, outputs>>

\* __exit__, lines 71-74: self.interrupt_event.set() (join only waits)
exit ==
    /\ ~interrupt_event
    /\ interrupt_event' = TRUE
    /\ UNCHANGED <<target_pose, last_scan, as_goal, as_status>>
    /\ UNCHANGED <<callback, pc, tf_wrapper, timing, locals, outputs>>

(***************************************************************************)
(* The pure parts of the loop body.                                        *)
(***************************************************************************)
\* line 116: list(ranges[::stride])
decimate(ranges, stride) ==
    [i \in 1..((Len(ranges) + stride - 1) \div stride) |-> ranges[(i - 1) * stride + 1]]

\* the centred cut alone, without the test for one element too much
crop_keeps_odd(scans) ==
    LET cut_n_elements == (Len(scans) - n_laser_scans) \div 2
    IN  IF cut_n_elements > 0
        THEN SubSeq(scans, cut_n_elements + 1, Len(scans) - cut_n_elements)
        ELSE scans

\* the element too much taken from the front instead of the back
crop_drops_first(scans) ==
    LET cut_n_elements == (Len(scans) - n_laser_scans) \div 2
        cropped_scans == IF cut_n_elements > 0
                         THEN SubSeq(scans, cut_n_elements + 1, Len(scans) - cut_n_elements)
                         ELSE scans
    IN  IF Len(cropped_scans) = n_laser_scans + 1
        THEN SubSeq(cropped_scans, 2, Len(cropped_scans))
        ELSE cropped_scans

\* lines 117-124: cut (len - n) // 2 elements on each side when that is
\* positive, then drop the last element when exactly one is too much
crop(scans) ==
    LET cut_n_elements == (Len(scans) - n_laser_scans) \div 2
        cropped_scans == IF cut_n_elements > 0
                         THEN SubSeq(scans, cut_n_elements + 1, Len(scans) - cut_n_elements)
                         ELSE scans
    IN  IF Len(cropped_scans) = n_laser_scans + 1
        THEN SubSeq(cropped_scans, 1, Len(cropped_scans) - 1)
        ELSE cropped_scans

\* the relative target without the negation of its second component
relative_target_unmirrored(p, d, q) ==
    LET goal_position_base_frame ==
            quaternion_multiply(quaternion_inverse(p),
                                quaternion_multiply(<<d[1], d[2], 0, 0>>, p))
        orientation_to_target == quaternion_multiply(q, quaternion_inverse(p))
        yaw == euler_yaw(orientation_to_target)
    IN  <<goal_position_base_frame[1], goal_position_base_frame[2], yaw>>

\* lines 179-197: p the orientation of base_link, d the position difference,
\* q the orientation of the goal
relative_target(p, d, q) ==
    LET goal_position_base_frame ==
            quaternion_multiply(quaternion_inverse(p),
                                quaternion_multiply(<<d[1], d[2], 0, 0>>, p))
        orientation_to_target == quaternion_multiply(q, quaternion_inverse(p))
        yaw == euler_yaw(orientation_to_target)
    IN  <<goal_position_base_frame[1], 0 - goal_position_base_frame[2], yaw>>

\* lines 143-147: the test of check_goal_reached
within_tolerance(t) ==
    /\ Abs(t[1]) < position_tolerance
    /\ Abs(t[2]) < position_tolerance
    /\ Abs(t[3]) < orientation_tolerance

\* self._as.set_succeeded(): the current goal becomes Succeeded; the server
\* refuses the transition for a goal that is not Active
set_succeeded ==
    as_status' = IF is_active
                 THEN [as_status EXCEPT ![as_goal] = "Succeeded"]
                 ELSE as_status

(***************************************************************************)
(* The processing thread: processing_data, lines 82-136.  The locals of    *)
(* an iteration are dead once it ends, and are cleared there.              *)
(***************************************************************************)
\* `continue`, or the end of the loop body: back to line 93
end_of_iteration ==
    /\ pc' = "while"
    /\ base' = None /\ diff' = None /\ reads' = None
    /\ target' = None /\ input_data' = None /\ cmd' = None

\* lines 90-91: the TensorflowWrapper is entered, next_call = time.time()
enter ==
    /\ pc = "enter"
    /\ tf_wrapper' = "held"
    /\ start' = now
    /\ next_call' = now
    /\ pc' = "while"
    /\ UNCHANGED <<shared, callback, now, iter, missed, locals, outputs>>

\* a loop that never looks at the event: while True
loop_test_ignores_event ==
    /\ pc = "while"
    /\ iter < MaxTicks
    /\ pc' = "schedule"
    /\ UNCHANGED <<shared, callback, tf_wrapper, timing, locals, outputs>>

\* a loop that looks at the event before its first iteration only
loop_test_first_only ==
    /\ pc = "while"
    /\ IF interrupt_event /\ iter = 0
       THEN /\ pc' = "done"
            /\ tf_wrapper' = "released"
       ELSE /\ iter < MaxTicks
            /\ pc' = "schedule"
            /\ UNCHANGED tf_wrapper
    /\ UNCHANGED <<shared, callback, timing, locals, outputs>>

\* line 93: while not self.interrupt_event.is_set(); leaving the loop leaves
\* the with block, which releases the wrapper
loop_test ==
    /\ pc = "while"
    /\ IF interrupt_event
       THEN /\ pc' = "done"
            /\ tf_wrapper' = "released"
       ELSE /\ iter < MaxTicks
            /\ pc' = "schedule"
            /\ UNCHANGED tf_wrapper
    /\ UNCHANGED <<shared, callback, timing, locals, outputs>>

\* a deadline that is taken from the clock again after a miss
schedule_rebased ==
    /\ pc = "schedule"
    /\ iter' = iter + 1
    /\ IF next_call + 1 - now > 0
       THEN next_call' = next_call + 1 /\ now' = next_call' /\ missed' = FALSE
       ELSE next_call' = now /\ now' = now /\ missed' = TRUE
    /\ published' = <<>>
    /\ feedback' = 0
    /\ after_set' = IF interrupt_event
                    THEN [after_set EXCEPT !.ticks = @ + 1]
                    ELSE after_set
    /\ pc' = "is_active"
    /\ UNCHANGED <<shared, callback, tf_wrapper, start, locals, succeeded>>

\* lines 96-101: the deadline advances by one period; the thread sleeps up
\* to it, or logs the miss when it has passed
schedule ==
    /\ pc = "schedule"
    /\ iter' = iter + 1
    /\ next_call' = next_call + 1
    /\ IF next_call' - now > 0
       THEN now' = next_call' /\ missed' = FALSE
       ELSE now' = now /\ missed' = TRUE
    /\ published' = <<>>
    /\ feedback' = 0
    /\ after_set' = IF interrupt_event
                    THEN [after_set EXCEPT !.ticks = @ + 1]
                    ELSE after_set
    /\ pc' = "is_active"
    /\ UNCHANGED <<shared, callback, tf_wrapper, start, locals, succeeded>>

\* line 104 without its `continue`: the body runs whatever is_active() says
check_active_falls_through ==
    /\ pc = "is_active"
    /\ pc' = "have"
    /\ UNCHANGED <<shared, callback, tf_wrapper, timing, locals, outputs>>

\* lines 104-105: if not self._as.is_active(): continue
check_active ==
    /\ pc = "is_active"
    /\ IF ~is_active
       THEN end_of_iteration
       ELSE pc' = "have" /\ UNCHANGED locals
    /\ UNCHANGED <<shared, callback, tf_wrapper, timing, outputs>>

\* lines 107-108: if not self.target_pose or not self.last_scan: continue
check_data ==
    /\ pc = "have"
    /\ IF target_pose = None \/ last_scan = None
       THEN end_of_iteration
       ELSE pc' = "lookup" /\ UNCHANGED locals
    /\ UNCHANGED <<shared, callback, tf_wrapper, timing, outputs>>

\* the lookup raising with no except clause: the exception ends the thread
lookup_failed_uncaught ==
    /\ pc = "lookup"
    /\ tf_wrapper' = "released"
    /\ pc' = "raised"
    /\ UNCHANGED <<shared, callback, timing, locals, outputs>>

\* compute_relative_target, lines 154-160: the lookup raised one of the three
\* tf exceptions and None is returned to line 110
lookup_failed ==
    /\ pc = "lookup"
    /\ target' = None
    /\ pc' = "target"
    /\ UNCHANGED <<shared, callback, tf_wrapper, timing, outputs>>
    /\ UNCHANGED <<base, diff, reads, input_data, cmd>>

\* the lookup returning with no feedback published
lookup_transform_silent ==
    /\ pc = "lookup"
    /\ \E r \in RobotPoses : base' = Some(r)
    /\ pc' = "read_x"
    /\ UNCHANGED <<shared, callback, tf_wrapper, timing, outputs>>
    /\ UNCHANGED <<diff, reads, target, input_data, cmd>>

\* compute_relative_target, lines 154-172: the lookup returned the pose of
\* base_link, which is published as feedback
lookup_transform ==
    /\ pc = "lookup"
    /\ \E r \in RobotPoses : base' = Some(r)
    /\ feedback' = feedback + 1
    /\ pc' = "read_x"
    /\ UNCHANGED <<shared, callback, tf_wrapper, timing, published, succeeded, after_set>>
    /\ UNCHANGED <<diff, reads, target, input_data, cmd>>

\* line 175: self.target_pose...position.x - base_position.x
read_x ==
    /\ pc = "read_x"
    /\ diff' = <<Get(target_pose).x - Get(base).x>>
    /\ reads' = <<Get(target_pose).id>>
    /\ pc' = "read_y"
    /\ UNCHANGED <<shared, callback, tf_wrapper, timing, outputs>>
    /\ UNCHANGED <<base, target, input_data, cmd>>

\* line 176: self.target_pose...position.y - base_position.y
read_y ==
    /\ pc = "read_y"
    /\ diff' = Append(diff, Get(target_pose).y - Get(base).y)
    /\ reads' = Append(reads, Get(target_pose).id)
    /\ pc' = "read_q"
    /\ UNCHANGED <<shared, callback, tf_wrapper, timing, outputs>>
    /\ UNCHANGED <<base, target, input_data, cmd>>

\* lines 179-197: self.target_pose...orientation is read and the relative
\* target returned to line 110
read_orientation ==
    /\ pc = "read_q"
    /\ target' = Some(relative_target(Get(base).q, diff, Get(target_pose).q))
    /\ reads' = Append(reads, Get(target_pose).id)
    /\ pc' = "target"
    /\ UNCHANGED <<shared, callback, tf_wrapper, timing, outputs>>
    /\ UNCHANGED <<base, diff, input_data, cmd>>

\* lines 111-112: if not target: continue (a tuple of three is never false)
check_target ==
    /\ pc = "target"
    /\ IF target = None
       THEN end_of_iteration
       ELSE pc' = "input" /\ UNCHANGED locals
    /\ UNCHANGED <<shared, callback, tf_wrapper, timing, outputs>>

\* lines 116-126: input_data = cropped_scans + list(target)
prepare_input ==
    /\ pc = "input"
    /\ input_data' = Some(crop(decimate(Get(last_scan), laser_scan_stride)) \o Get(target))
    /\ pc' = "inference"
    /\ UNCHANGED <<shared, callback, tf_wrapper, timing, outputs>>
    /\ UNCHANGED <<base, diff, reads, target, cmd>>

\* line 128: tf_wrapper.inference(input_data) returns (linear_x, angular_z)
inference ==
    /\ pc = "inference"
    /\ \E out \in InferenceOutputs : cmd' = Some(out)
    /\ \E d \in 0..MaxDelay : now' = now + d
    /\ pc' = "publish"
    /\ UNCHANGED <<shared, callback, tf_wrapper, next_call, start, iter, missed, outputs>>
    /\ UNCHANGED <<base, diff, reads, target, input_data>>

\* the exception of line 128 with the wrapper opened outside a with block
inference_raised_leaks ==
    /\ pc = "inference"
    /\ \E d \in 0..MaxDelay : now' = now + d
    /\ pc' = "raised"
    /\ UNCHANGED <<shared, callback, tf_wrapper, next_call, start, iter, missed, locals, outputs>>

\* line 128: tf_wrapper.inference(input_data) raises; nothing catches it, the
\* with block releases the wrapper and the thread ends
inference_raised ==
    /\ pc = "inference"
    /\ \E d \in 0..MaxDelay : now' = now + d
    /\ tf_wrapper' = "released"
    /\ pc' = "raised"
    /\ UNCHANGED <<shared, callback, next_call, start, iter, missed, locals, outputs>>

\* the command published twice
publish_twice ==
    /\ pc = "publish"
    /\ published' = published \o <<Get(cmd), Get(cmd)>>
    /\ after_set' = IF interrupt_event
                    THEN [after_set EXCEPT !.cmds = @ + 2]
                    ELSE after_set
    /\ pc' = "check"
    /\ UNCHANGED <<shared, callback, tf_wrapper, timing, locals, feedback, succeeded>>

\* lines 130-133: self.cmd_pub.publish(cmd)
publish ==
    /\ pc = "publish"
    /\ published' = Append(published, Get(cmd))
    /\ after_set' = IF interrupt_event
                    THEN [after_set EXCEPT !.cmds = @ + 1]
                    ELSE after_set
    /\ pc' = "check"
    /\ UNCHANGED <<shared, callback, tf_wrapper, timing, locals, feedback, succeeded>>

\* lines 136-148: check_goal_reached(target), the end of the loop body
check_goal_reached ==
    /\ pc = "check"
    /\ IF within_tolerance(Get(target))
       THEN /\ set_succeeded
            /\ succeeded' = [succeeded EXCEPT ![as_goal] = @ + 1]
            /\ after_set' = IF interrupt_event
                            THEN [after_set EXCEPT !.succs = @ + 1]
                            ELSE after_set
       ELSE UNCHANGED <<as_status, succeeded, after_set>>
    /\ end_of_iteration
    /\ UNCHANGED <<target_pose, last_scan, interrupt_event, as_goal>>
    /\ UNCHANGED <<callback, tf_wrapper, timing, published, feedback>>

Next ==
    \/ scan_callback
    \/ goal_callback_accept
    \/ goal_callback_store
    \/ preempt_callback
    \/ exit
    \/ enter
    \/ loop_test
    \/ schedule
    \/ check_active
    \/ check_data
    \/ lookup_failed
    \/ lookup_transform
    \/ read_x
    \/ read_y
    \/ read_orientation
    \/ check_target
    \/ prepare_input
    \/ inference
    \/ inference_raised
    \/ publish
    \/ check_goal_reached

Spec == Init /\ [][Next]_vars

\* the steps of the processing thread
Loop ==
    \/ enter
    \/ loop_test
    \/ schedule
    \/ check_active
    \/ check_data
    \/ lookup_failed
    \/ lookup_transform
    \/ read_x
    \/ read_y
    \/ read_orientation
    \/ check_target
    \/ prepare_input
    \/ inference
    \/ inference_raised
    \/ publish
    \/ check_goal_reached

\* the processing thread is a thread of its own (line 59): it is scheduled
\* as long as it has a step to take, and sleep, lookup and inference return
SpecFair == Spec /\ WF_vars(Loop)

\* compute_relative_target from line 174 on and the preprocessing of lines
\* 116-126, on their own: the first iteration of the loop has found goal 1
\* Active, a scan and a goal pose present, and the lookup has returned
InitPure ==
    /\ \E p \in PureGoalPoses :
          target_pose = Some([id |-> 1, x |-> p.x, y |-> p.y, q |-> p.q])
    /\ \E data \in PureScans : last_scan = Some(data)
    /\ \E r \in PureRobotPoses : base = Some(r)
    /\ interrupt_event = FALSE
    /\ as_goal = 1
    /\ as_status = [g \in GoalIds |-> IF g = 1 THEN "Active" ELSE "Idle"]
    /\ gpc = "idle"
    /\ goal = None
    /\ pc = "read_x"
    /\ tf_wrapper = "held"
    /\ next_call = 1
    /\ start = 0
    /\ now = 1
    /\ iter = 1
    /\ missed = FALSE
    /\ diff = None
    /\ reads = None
    /\ target = None
    /\ input_data = None
    /\ cmd = None
    /\ published = <<>>
    /\ feedback = 1
    /\ succeeded = [g \in GoalIds |-> 0]
    /\ after_set = [ticks |-> 0, cmds |-> 0, succs |-> 0]

NextPure ==
    \/ read_x
    \/ read_y
    \/ read_orientation
    \/ check_target
    \/ prepare_input

SpecPure == InitPure /\ [][NextPure]_vars

(***************************************************************************)
(* Properties.                                                             *)
(***************************************************************************)
\* a step of the processing thread
LoopStep == pc' # pc

\* the tolerance test as the specification states it: all three strict
Reached(t) ==
    /\ Abs(t[1]) < position_tolerance
    /\ Abs(t[2]) < position_tolerance
    /\ Abs(t[3]) < orientation_tolerance

\* C1: an iteration that finds the goal not Active at its activity check
\* (line 104), or that finds no scan received at its data check (line 107),
\* ends there: no command is published in it, and the deadline has been
\* advanced by one period for it (next_call is the start time plus one
\* period per iteration begun).
C1_SkipPublishesNothing ==
    [][ ( /\ LoopStep
          /\ \/ pc = "is_active" /\ ~is_active
             \/ pc = "have" /\ last_scan = None )
        => /\ pc' = "while"
           /\ published' = <<>>
           /\ next_call' = start + iter
           /\ iter >= 1 ]_vars

\* an iteration has ended without a command while the goal is Active and no
\* scan was ever received
C1_Witness ==
    /\ pc = "while" /\ iter = 2
    /\ is_active /\ last_scan = None
    /\ published = <<>> /\ next_call = start + 2

\* C2: an iteration that passes the activity check, the data check, the
\* transform lookup and the inference call publishes exactly one command:
\* none before line 133, one from there to the end of the iteration, and
\* never more than one.
C2_ExactlyOneCommand ==
    /\ [](/\ Len(published) <= 1
          /\ pc = "publish" => (published = <<>> /\ base # None /\ cmd # None)
          /\ pc = "check" => published = <<Get(cmd)>>)
    /\ [][ (pc = "inference" /\ LoopStep /\ cmd' # None) => pc' = "publish" ]_vars
    /\ [][ (pc = "check" /\ LoopStep) => (pc' = "while" /\ Len(published') = 1) ]_vars

\* the second iteration has run to its end and published its command
C2_Witness ==
    /\ pc = "while" /\ iter = 2
    /\ Len(published) = 1

\* C3 as claimed: at most one goal is Active; accepting a goal while one is
\* Active makes the new goal the current goal and leaves the server Active;
\* and the goal pose a tick reads (lines 175, 176, 182) after a goal was
\* accepted is the pose of the goal accepted last (last goal wins).
C3_LastGoalWins ==
    /\ [](Cardinality({g \in GoalIds : as_status[g] = "Active"}) <= 1)
    /\ [][ (gpc = "idle" /\ gpc' = "accepted") =>
             /\ as_goal' = as_goal + 1
             /\ is_active' ]_vars
    /\ [][ (pc \in {"read_x", "read_y", "read_q"} /\ LoopStep)
             => Get(target_pose).id = as_goal ]_vars

\* C4 as claimed: set_succeeded is never invoked while the goal is not
\* Active.
C4_SucceedOnlyFromActive ==
    [][ succeeded' # succeeded => is_active ]_vars

\* C5 as claimed: whenever a command is published the goal is Active.
C5_PublishOnlyWhenActive ==
    [][ (pc = "publish" /\ LoopStep) => is_active ]_vars

\* C6 as claimed: an iteration that has computed a relative target strictly
\* within the three tolerances ends with the goal Succeeded, and success is
\* signalled once for a goal, never again by later iterations.
C6_AlwaysSucceeds ==
    /\ [](\A g \in GoalIds : succeeded[g] <= 1)
    /\ [][ (/\ LoopStep
            /\ target # None
            /\ pc' \in {"while", "raised"}
            /\ Reached(Get(target)))
          => as_status'[as_goal] = "Succeeded" ]_vars

\* C7 as claimed: the three reads of self.target_pose made for one relative
\* target (lines 175, 176, 182) see one and the same goal message.
C7_NoTornGoal ==
    \A i, j \in DOMAIN reads : reads[i] = reads[j]

\* C8: when the transform lookup fails, compute_relative_target returns
\* None whatever the goal is, and the iteration ends there: no command is
\* published, the goal's completion is not checked, and the thread is back
\* at the loop test with the wrapper held.
C8_LookupFailureSkips ==
    /\ [][ (pc = "lookup" /\ LoopStep /\ base' = None)
             => (pc' = "target" /\ target' = None) ]_vars
    /\ [][ (pc = "target" /\ LoopStep /\ target = None)
             => /\ pc' = "while"
                /\ tf_wrapper' = "held"
                /\ published' = <<>>
                /\ succeeded' = succeeded
                /\ as_status' = as_status ]_vars

\* the lookup has failed for an Active goal with a pose and a scan present
C8_Witness ==
    /\ pc = "target" /\ target = None
    /\ is_active /\ target_pose # None /\ last_scan # None

\* C9 as claimed: every inference call receives n_laser_scans scan values
\* followed by the three components of the relative target.
C9_InputLength ==
    pc = "inference" =>
        /\ Len(Get(input_data)) = n_laser_scans + 3
        /\ SubSeq(Get(input_data), n_laser_scans + 1, n_laser_scans + 3) = Get(target)

\* C10 as claimed: an inference call that fails ends the iteration only:
\* the thread is back at the loop test and nothing was published.
C10_InferenceFailureSkips ==
    [][ (pc = "inference" /\ LoopStep /\ cmd' = None)
          => (pc' = "while" /\ published' = <<>>) ]_vars

\* C11: under fair scheduling of the processing thread, once the event is
\* set the thread ends (the loop is left at line 93, or the thread has ended
\* already), whatever the iteration in progress does, so join returns.
C11_CancelExits ==
    interrupt_event ~> (pc = "done" \/ pc = "raised")

\* the event was set and the loop left after an iteration that was skipped
C11_Witness ==
    /\ interrupt_event /\ pc = "done"
    /\ iter = 2 /\ published = <<>> /\ feedback = 0

\* C12: the wrapper is entered before the first iteration and held in every
\* iteration (so at every inference call); it is released when the thread
\* leaves the loop, by the event or by an exception, and only then: once
\* held it is never entered again, once released it stays released.
C12_HandleScoped ==
    /\ [](/\ pc = "enter" => (tf_wrapper = "none" /\ iter = 0)
          /\ pc \in {"done", "raised"} => tf_wrapper = "released"
          /\ pc \notin {"enter", "done", "raised"} => tf_wrapper = "held")
    /\ [][ tf_wrapper' # tf_wrapper =>
             \/ tf_wrapper = "none" /\ tf_wrapper' = "held"
             \/ tf_wrapper = "held" /\ tf_wrapper' = "released"
                   /\ pc' \in {"done", "raised"} ]_vars

\* the thread was ended by the exception of an inference call and the
\* wrapper is released
C12_Witness ==
    /\ pc = "raised" /\ tf_wrapper = "released"
    /\ input_data # None

\* C13: setting the event, and the loop's exit on it, change neither the
\* state of any goal nor the current goal nor the stored goal pose.
C13_ShutdownKeepsGoal ==
    [][ (interrupt_event' # interrupt_event \/ (pc = "while" /\ pc' = "done"))
          => UNCHANGED <<as_goal, as_status, target_pose>> ]_vars

\* the loop has ended on the event and the goal is still Active
C13_Witness ==
    /\ pc = "done" /\ interrupt_event
    /\ is_active /\ target_pose # None

\* C14: next_call is the start time plus one period for every iteration
\* begun, whatever the iterations did; an iteration whose deadline has
\* passed logs the miss, does not sleep and runs its body; an iteration
\* whose deadline lies ahead sleeps up to it and runs its body.
C14_DeadlineAccumulates ==
    /\ [](next_call = start + iter)
    /\ [][ (pc = "schedule" /\ LoopStep) =>
             /\ pc' = "is_active"
             /\ next_call' = next_call + 1
             /\ next_call' < now => (missed' /\ now' = now)
             /\ next_call' > now => (~missed' /\ now' = next_call') ]_vars

\* the second iteration runs its body after its deadline had passed
C14_Witness ==
    /\ pc = "is_active" /\ iter = 2
    /\ missed /\ next_call < now

\* the length of list(ranges[::stride]) for the scan the iteration uses
DecimatedLen == (Len(Get(last_scan)) + laser_scan_stride - 1) \div laser_scan_stride

\* C15: whenever the decimated scan has at least n_laser_scans elements, the
\* scan part of the input vector (the vector without the three components of
\* the target) has exactly n_laser_scans elements, whatever the length of the
\* scan: for an even excess, an odd excess and an excess of exactly one.
C15_CropLength ==
    (pc = "inference" /\ DecimatedLen >= n_laser_scans)
        => Len(Get(input_data)) - 3 = n_laser_scans

\* an excess of exactly one has been cropped
C15_Witness ==
    /\ pc = "inference"
    /\ DecimatedLen = n_laser_scans + 1
    /\ Len(Get(input_data)) = n_laser_scans + 3

\* C16: trimming is centred.  With k = (decimated length - n_laser_scans) // 2,
\* k elements are removed from the front, and k from the back for an even
\* excess, k + 1 for an odd one: the scan part of the input vector is the
\* window of the decimated scan that starts after its first k elements (the
\* scans are ramps, so the window is told by its values).
C16_CropCentred ==
    (pc = "inference" /\ DecimatedLen >= n_laser_scans) =>
        LET k == (DecimatedLen - n_laser_scans) \div 2
            odd == (DecimatedLen - n_laser_scans) % 2
            kept == Len(Get(input_data)) - 3
        IN  /\ DecimatedLen - kept = k + (k + odd)
            /\ \A j \in 1..kept :
                  Get(input_data)[j] = 1 + (k + j - 1) * laser_scan_stride

\* an odd excess of three: one element cut from the front, two from the back
C16_Witness ==
    /\ pc = "inference"
    /\ DecimatedLen = n_laser_scans + 3
    /\ Get(input_data)[1] = 1 + laser_scan_stride
    /\ Get(input_data)[n_laser_scans] = 1 + n_laser_scans * laser_scan_stride

\* the robot has the identity orientation and the goal a yaw of zero
Unrotated == Get(base).q = QIdentity /\ Get(target_pose).q = QIdentity

\* C17, as amended: with the identity orientation of the robot and a goal yaw
\* of zero the relative target is (dx, -dy, 0), where (dx, dy) is the position
\* of the goal minus the position of the robot: the second component is
\* negated (line 197).  A robot at the origin and a goal at (3, 4) give
\* (3, -4, 0).
C17_LateralNegated ==
    (pc = "target" /\ Unrotated) =>
        Get(target) = << Get(target_pose).x - Get(base).x,
                         0 - (Get(target_pose).y - Get(base).y),
                         0 >>

\* robot at the origin, goal at (3, 4) with yaw 0
C17_Witness ==
    /\ pc = "target"
    /\ Unrotated
    /\ Get(base).x = 0 /\ Get(base).y = 0
    /\ Get(target_pose).x = 300 /\ Get(target_pose).y = 400
    /\ Get(target) = <<300, 0 - 400, 0>>

\* C17, as stated: with the identity orientation of the robot and a goal yaw
\* of zero the relative target is (dx, dy, 0), the position of the goal minus
\* the position of the robot; (3, 4, 0) for the origin and the goal (3, 4).
C17_GoalMinusRobot ==
    (pc = "target" /\ Unrotated) =>
        Get(target) = << Get(target_pose).x - Get(base).x,
                         Get(target_pose).y - Get(base).y,
                         0 >>

\* C18: a goal is marked Succeeded only on the evidence of its own pose.
\* Whenever check_goal_reached signals success for the goal that is Active
\* (line 148), the relative target that passed the tolerance test was computed
\* from reads of the pose of that very goal (lines 175, 176, 182), never from
\* the pose of a goal accepted before it, however goal_callback (accept at
\* line 203, store at line 204) interleaves with the iteration.
C18_SuccessOnOwnPose ==
    [][ (pc = "check" /\ LoopStep /\ within_tolerance(Get(target)) /\ is_active)
          => \A i \in 1..Len(reads) : reads[i] = as_goal ]_vars

\* C19: the event is tested once per iteration, at the top of the loop (line
\* 93) and nowhere in the body.  Once it is set the loop is left at the next
\* test, so that after interrupt_event.set() at most one more iteration is
\* begun, at most one command is published and at most one success is
\* signalled; an iteration that is under way when the event is set is not cut
\* short.
C19_OneMoreTick ==
    /\ [](/\ after_set.ticks <= 1
          /\ after_set.cmds <= 1
          /\ after_set.succs <= 1)
    /\ [][ (interrupt_event /\ LoopStep) =>
             /\ pc = "while" => pc' = "done"
             /\ pc \notin {"while", "inference"} => pc' \notin {"done", "raised"} ]_vars

\* the event was set between the test of line 93 and line 96: one whole
\* iteration ran after it, with its command and its success
C19_Witness ==
    /\ pc = "done"
    /\ after_set = [ticks |-> 1, cmds |-> 1, succs |-> 1]

\* C20: the pose of the robot is published as feedback exactly once in every
\* iteration in which compute_relative_target is called and its lookup
\* succeeds (line 172), also when the iteration then publishes no command
\* (the inference raised); no feedback is published in an iteration that is
\* skipped because no goal is Active (line 105), because no goal pose or no
\* scan is present (line 108), or because the lookup failed (line 112).
C20_FeedbackOncePerLookup ==
    /\ [](/\ feedback <= 1
          /\ pc \in {"is_active", "have", "lookup"} => feedback = 0
          /\ base # None => feedback = 1
          /\ pc \in {"publish", "check", "raised"} => feedback = 1)
    /\ [][ LoopStep =>
             /\ (pc = "lookup" /\ base' # None) => feedback' = feedback + 1
             /\ (pc = "lookup" /\ base' = None) => feedback' = 0
             /\ (pc \in {"is_active", "have", "target"} /\ pc' = "while")
                    => (feedback' = 0 /\ published' = <<>>)
             /\ (pc = "check" /\ pc' = "while") => feedback' = 1
             /\ pc \notin {"lookup", "schedule"} => feedback' = feedback ]_vars

\* the lookup succeeded and the inference raised: feedback and no command
C20_Witness ==
    /\ pc = "raised"
    /\ feedback = 1
    /\ published = <<>>

=============================================================================
